---- MODULE Spec2Model ----
(***************************************************************************)
(* Pet Health firmware (okoeth/firmware): the three-mode controller of     *)
(* the console-logging sketch, src/unnamed/part_000 lines 157-483.         *)
(*                                                                         *)
(* The model follows loop() one function call at a time.  pc names the     *)
(* call that runs next; "loop" is the boundary between two calls of        *)
(* loop().  trace is the ordered list of the statements with an effect     *)
(* that the current call of loop() has executed so far (assignments to     *)
(* the globals, pin writes, console lines, delays); it is emptied when     *)
(* loop() is entered again, so at pc = "loop" it holds the effects of the  *)
(* iteration that has just completed.                                      *)
(***************************************************************************)
EXTENDS Integers, Sequences, FiniteSets, TLC

(* ---------------------------------------------------------------------- *)
(* Bounds of the model                                                     *)
(* ---------------------------------------------------------------------- *)

\* number of calls of loop() that a behaviour explores
MaxLoops == 6

\* number of received console bytes that may be pending at once
MaxRx == 1

(* ---------------------------------------------------------------------- *)
(* Program constants                                                       *)
(* ---------------------------------------------------------------------- *)

LOW == 0

HIGH == 1

PIN_LED_SYNC == 5

PIN_LED_SLEEP == 6

PIN_LED_ACTIVE == 3

MODE_NONE == 0

MODE_SYNC == 1

MODE_SLEEP == 2

REST == 500

\* int is 16 bits wide on the target, long is 32 bits wide
MaxInt16 == (2 ^ 15) - 1

MinInt16 == -(2 ^ 15)

MaxInt32 == 2147483647

MinInt32 == (-2147483647) - 1

Levels == {LOW, HIGH}

\* the pairs of words <<X, Y>> the accelerometer may deliver (signed 16 bit)
SensorWords ==
    {<<0, 0>>, <<100, 100>>, <<200, 100>>, <<300, 100>>, <<-150, 0>>,
     <<-250, 300>>, <<MinInt16, MaxInt16>>}

\* the console bytes the base station may send
ConsoleBytes == {"D", "R", "X"}

VARIABLES
    mode,            \* int mode
    prevSyncState,   \* int prevSyncState
    prevSleepState,  \* int prevSleepState
    AcStep,          \* int AcStep
    AcCount,         \* int AcCount
    AcTotal,         \* long AcTotal
    ledSync,         \* level last written to PIN_LED_SYNC
    ledSleep,        \* level last written to PIN_LED_SLEEP
    ledActive,       \* value last written to PIN_LED_ACTIVE
    pinSync,         \* level on PIN_BUTTON_SYNC when processSyncButton last ran
    pinSleep,        \* level on PIN_BUTTON_SLEEP when processSleepButton last ran
    syncState,       \* level of the last digitalRead(PIN_BUTTON_SYNC)
    sleepState,      \* level of the last digitalRead(PIN_BUTTON_SLEEP)
    rx,              \* console bytes received and not yet read
    trace,           \* effects of the current call of loop(), in order
    pc,              \* the call that runs next
    iter,            \* calls of loop() so far
    sessionSamples,  \* history: samples taken since Sleep was last entered
    sessionSum,      \* history: sum of their step values
    now,             \* milliseconds spent in delay() so far
    lastFire,        \* history: value of now when a button last fired
    lastSample,      \* history: value of now when the sensor was last read
    statusSD,        \* boolean statusSD: the SD card was initialised
    fileExists,      \* LOG.TXT exists on the card
    logFile          \* the lines of LOG.TXT

\* the clock and its history
clockVars == <<now, lastFire, lastSample>>

\* the SD card, which only the card-logging sketch uses
sdVars == <<statusSD, fileExists, logFile>>

vars == <<mode, prevSyncState, prevSleepState, AcStep, AcCount, AcTotal,
          ledSync, ledSleep, ledActive, pinSync, pinSleep, syncState,
          sleepState, rx, trace, pc, iter, sessionSamples, sessionSum,
          now, lastFire, lastSample, statusSD, fileExists, logFile>>

\* lastFire and lastSample before the first fire and the first sample
Never == 0 - 1

(* ---------------------------------------------------------------------- *)
(* Arithmetic of the target                                                *)
(* ---------------------------------------------------------------------- *)

\* variant for C17: division rounding toward minus infinity
FloorDiv(a, b) == a \div b

\* C++ integer division truncates toward zero
TruncDiv(a, b) == IF a >= 0 THEN a \div b ELSE -((-a) \div b)

\* remainder matching TruncDiv
TruncRem(a, b) == a - b * TruncDiv(a, b)

\* a + b wrapped into the signed 16-bit range (modulo 2^16)
WrapInt16(a, b) == ((a + b - MinInt16) % (2 ^ 16)) + MinInt16

\* a + b wrapped into the signed 32-bit range (modulo 2^32), for 0 <= b
WrapInt32(a, b) ==
    IF a > MaxInt32 - b THEN MinInt32 + ((b - (MaxInt32 - a)) - 1) ELSE a + b

\* The values a + b may take in a signed 16-bit int, for 0 <= b.  A sum
\* beyond 32767 is a signed overflow, which the language leaves undefined:
\* the set holds every outcome the build for the target produces.  It adds
\* in 16-bit registers and stores the result, so the one outcome is the
\* wrapped sum.
AddInt16(a, b) == IF a + b <= MaxInt16 THEN {a + b} ELSE {WrapInt16(a, b)}

\* The values a + b may take in a signed 32-bit long, for 0 <= b; as above.
AddInt32(a, b) == IF a <= MaxInt32 - b THEN {a + b} ELSE {WrapInt32(a, b)}

(* ---------------------------------------------------------------------- *)
(* Text                                                                    *)
(* ---------------------------------------------------------------------- *)

DigitChar(d) ==
    CASE d = 0 -> "0" [] d = 1 -> "1" [] d = 2 -> "2" [] d = 3 -> "3"
      [] d = 4 -> "4" [] d = 5 -> "5" [] d = 6 -> "6" [] d = 7 -> "7"
      [] d = 8 -> "8" [] d = 9 -> "9"

\* the decimal digits of |n| for n <= 0, most significant first
RECURSIVE Magnitude(_)
Magnitude(n) ==
    IF n > -10 THEN DigitChar(-n)
    ELSE Magnitude(TruncDiv(n, 10)) \o DigitChar(-TruncRem(n, 10))

\* String += int / long: the number in base 10, "-" first when negative
Decimal(n) == IF n < 0 THEN "-" \o Magnitude(n) ELSE Magnitude(-n)

(* ---------------------------------------------------------------------- *)
(* Effects recorded in trace                                               *)
(* ---------------------------------------------------------------------- *)

Assign(name, value) ==
    [op |-> "assign", pin |-> 0, val |-> value, text |-> name]

DigitalWrite(p, level) ==
    [op |-> "digitalWrite", pin |-> p, val |-> level, text |-> ""]

AnalogWrite(p, value) ==
    [op |-> "analogWrite", pin |-> p, val |-> value, text |-> ""]

Println(line) ==
    [op |-> "println", pin |-> 0, val |-> 0, text |-> line]

Delay(ms) ==
    [op |-> "delay", pin |-> 0, val |-> ms, text |-> ""]

\* name = Wire.read() << 8 | Wire.read(): a word read from the sensor
WireRead(name, word) ==
    [op |-> "read", pin |-> 0, val |-> word, text |-> name]

\* int character = Serial.read(): a console byte taken from the UART
SerialRead(character) ==
    [op |-> "serialRead", pin |-> 0, val |-> 0, text |-> character]

\* logData(message): one console line, the message wrapped in a log tag
logData(message) == Println("<log message='" \o message \o "'/>")

\* summariseSleepData()
summariseSleepData(count, total) ==
    "SLEEP: duration=" \o Decimal(count) \o ", activity=" \o Decimal(total)

\* the console lines of a list of effects, in order
RECURSIVE Lines(_)
Lines(t) ==
    IF t = <<>> THEN <<>>
    ELSE (IF Head(t).op = "println" THEN <<Head(t).text>> ELSE <<>>)
         \o Lines(Tail(t))

\* the position of the first effect e in t, 0 when there is none
RECURSIVE IndexOf(_, _)
IndexOf(t, e) ==
    IF t = <<>> THEN 0
    ELSE IF Head(t) = e THEN 1
    ELSE IF IndexOf(Tail(t), e) = 0 THEN 0 ELSE 1 + IndexOf(Tail(t), e)

\* the effects a step adds to trace (none when loop() is entered)
NewEffects ==
    IF Len(trace') >= Len(trace)
    THEN SubSeq(trace', Len(trace) + 1, Len(trace'))
    ELSE <<>>

\* the elements of a sequence
Range(q) == {q[i] : i \in 1..Len(q)}

\* the milliseconds a list of effects spends in delay()
RECURSIVE Elapsed(_)
Elapsed(t) ==
    IF t = <<>> THEN 0
    ELSE (IF Head(t).op = "delay" THEN Head(t).val ELSE 0) + Elapsed(Tail(t))

\* the clock over a call of a button function: it advances by the delays
\* the call made, and a call that changed the mode is a fire
ButtonClock ==
    /\ now' = now + Elapsed(NewEffects)
    /\ lastFire' = IF mode' # mode THEN now ELSE lastFire
    /\ UNCHANGED lastSample

\* the clock over a call of processSleepData
SampleClock ==
    /\ now' = now + Elapsed(NewEffects)
    /\ lastSample' = now
    /\ UNCHANGED lastFire

(* ---------------------------------------------------------------------- *)
(* Initial state: after setup()                                            *)
(* ---------------------------------------------------------------------- *)

Init ==
    /\ mode = MODE_NONE
    /\ prevSyncState = LOW
    /\ prevSleepState = LOW
    /\ AcStep = 0
    /\ AcCount = 0
    /\ AcTotal = 0
    /\ ledSync = LOW
    /\ ledSleep = LOW
    /\ ledActive = 0
    /\ pinSync = LOW
    /\ pinSleep = LOW
    /\ syncState = LOW
    /\ sleepState = LOW
    /\ rx = <<>>
    /\ trace = <<>>
    /\ pc = "loop"
    /\ iter = 0
    /\ sessionSamples = 0
    /\ sessionSum = 0
    /\ now = 0
    /\ lastFire = Never
    /\ lastSample = Never
    \* the console-logging sketch never initialises the card
    /\ statusSD = FALSE
    /\ fileExists = FALSE
    /\ logFile = <<>>

(* ---------------------------------------------------------------------- *)
(* loop(): the dispatch on mode                                            *)
(* ---------------------------------------------------------------------- *)

Loop ==
    /\ pc = "loop"
    /\ iter < MaxLoops
    /\ iter' = iter + 1
    /\ trace' = <<>>
    /\ pc' = CASE mode = MODE_NONE  -> "idle_sync"
               [] mode = MODE_SYNC  -> "sync_button"
               [] mode = MODE_SLEEP -> "sleep_button"
               [] OTHER             -> "loop"
    /\ UNCHANGED <<mode, prevSyncState, prevSleepState, AcStep, AcCount,
                   AcTotal, ledSync, ledSleep, ledActive, pinSync, pinSleep,
                   syncState, sleepState, rx, sessionSamples, sessionSum,
                   clockVars, sdVars>>

(* ---------------------------------------------------------------------- *)
(* processSyncButton()                                                     *)
(* ---------------------------------------------------------------------- *)

SyncEnableEffects ==
    <<Assign("mode", MODE_SYNC), DigitalWrite(PIN_LED_SYNC, HIGH),
      logData("LOG: Sync button was pressed, sync mode enabled")>>

SyncDisableEffects ==
    <<Assign("mode", MODE_NONE), DigitalWrite(PIN_LED_SYNC, LOW),
      logData("LOG: Sync button was pressed, sync mode disabled")>>

\* the function body, with level the level on the sync button pin
processSyncButton(level) ==
    /\ pinSync' = level
    /\ IF mode = MODE_NONE \/ mode = MODE_SYNC
       THEN /\ syncState' = level
            /\ IF prevSyncState = LOW /\ level = HIGH
               THEN IF mode = MODE_NONE
                    THEN /\ mode' = MODE_SYNC
                         /\ ledSync' = HIGH
                         /\ trace' = trace \o SyncEnableEffects
                                           \o <<Delay(REST)>>
                    ELSE IF mode = MODE_SYNC
                    THEN /\ mode' = MODE_NONE
                         /\ ledSync' = LOW
                         /\ trace' = trace \o SyncDisableEffects
                                           \o <<Delay(REST)>>
                    ELSE /\ trace' = trace \o <<Delay(REST)>>
                         /\ UNCHANGED <<mode, ledSync>>
               ELSE UNCHANGED <<mode, ledSync, trace>>
       ELSE UNCHANGED <<mode, ledSync, syncState, trace>>
    \* prevSyncState is initialised to LOW and never assigned
    /\ UNCHANGED prevSyncState

(* ---------------------------------------------------------------------- *)
(* processSleepButton()                                                    *)
(* ---------------------------------------------------------------------- *)

SleepEnableEffects ==
    <<Assign("mode", MODE_SLEEP), Assign("AcStep", 0), Assign("AcCount", 0),
      Assign("AcTotal", 0), DigitalWrite(PIN_LED_SLEEP, HIGH),
      logData("LOG: Sleep button was pressed, sleep mode enabled")>>

\* variant for C6: the summary is logged before the notice
SleepDisableEffectsSummaryFirst(count, total) ==
    <<Assign("mode", MODE_NONE), DigitalWrite(PIN_LED_SLEEP, LOW),
      AnalogWrite(PIN_LED_ACTIVE, 0),
      logData(summariseSleepData(count, total)),
      logData("LOG: Sleep button was pressed, sleep mode disabled")>>

SleepDisableEffects(count, total) ==
    <<Assign("mode", MODE_NONE), DigitalWrite(PIN_LED_SLEEP, LOW),
      AnalogWrite(PIN_LED_ACTIVE, 0),
      logData("LOG: Sleep button was pressed, sleep mode disabled"),
      logData(summariseSleepData(count, total))>>

\* variant for C9: the branch forgets AcTotal = 0
EnterSleepKeepsTotal ==
    /\ mode' = MODE_SLEEP
    /\ AcStep' = 0
    /\ AcCount' = 0
    /\ ledSleep' = HIGH
    /\ trace' = trace \o <<Assign("mode", MODE_SLEEP), Assign("AcStep", 0),
                           Assign("AcCount", 0),
                           DigitalWrite(PIN_LED_SLEEP, HIGH),
                           logData("LOG: Sleep button was pressed, sleep mode enabled"),
                           Delay(REST)>>
    /\ sessionSamples' = 0
    /\ sessionSum' = 0
    /\ UNCHANGED <<AcTotal, ledActive>>

\* the branch of lines 331-336: Sleep is entered
EnterSleep ==
    /\ mode' = MODE_SLEEP
    /\ AcStep' = 0
    /\ AcCount' = 0
    /\ AcTotal' = 0
    /\ ledSleep' = HIGH
    /\ trace' = trace \o SleepEnableEffects \o <<Delay(REST)>>
    /\ sessionSamples' = 0
    /\ sessionSum' = 0
    /\ UNCHANGED ledActive

\* variant for C19: the branch forgets digitalWrite(PIN_LED_SLEEP, LOW)
LeaveSleepLedStaysOn ==
    /\ mode' = MODE_NONE
    /\ ledActive' = 0
    /\ trace' = trace \o <<Assign("mode", MODE_NONE),
                           AnalogWrite(PIN_LED_ACTIVE, 0),
                           logData("LOG: Sleep button was pressed, sleep mode disabled"),
                           logData(summariseSleepData(AcCount, AcTotal)),
                           Delay(REST)>>
    /\ UNCHANGED <<AcStep, AcCount, AcTotal, ledSleep, sessionSamples,
                   sessionSum>>

\* the branch of lines 338-342: Sleep is left
LeaveSleep ==
    /\ mode' = MODE_NONE
    /\ ledSleep' = LOW
    /\ ledActive' = 0
    /\ trace' = trace \o SleepDisableEffects(AcCount, AcTotal)
                      \o <<Delay(REST)>>
    /\ UNCHANGED <<AcStep, AcCount, AcTotal, sessionSamples, sessionSum>>

\* variant for C1: the modes kept as flags that the button sets and clears,
\* without the check of the other mode
processSleepButtonFlags(level) ==
    /\ pinSleep' = level
    /\ sleepState' = level
    /\ IF prevSleepState = LOW /\ level = HIGH
       THEN /\ mode' = IF mode >= MODE_SLEEP THEN mode - MODE_SLEEP
                       ELSE mode + MODE_SLEEP
            /\ ledSleep' = (IF mode >= MODE_SLEEP THEN LOW ELSE HIGH)
            /\ trace' = trace \o <<Delay(REST)>>
       ELSE UNCHANGED <<mode, ledSleep, trace>>
    /\ UNCHANGED <<AcStep, AcCount, AcTotal, ledActive, sessionSamples,
                   sessionSum, prevSleepState>>

\* variant for C2: the button toggles Sleep whatever the mode is
processSleepButtonUnguarded(level) ==
    /\ pinSleep' = level
    /\ sleepState' = level
    /\ IF prevSleepState = LOW /\ level = HIGH
       THEN IF mode # MODE_SLEEP THEN EnterSleep ELSE LeaveSleep
       ELSE UNCHANGED <<mode, AcStep, AcCount, AcTotal, ledSleep,
                        ledActive, trace, sessionSamples, sessionSum>>
    /\ UNCHANGED prevSleepState

\* the function body, with level the level on the sleep button pin
processSleepButton(level) ==
    /\ pinSleep' = level
    /\ IF mode = MODE_NONE \/ mode = MODE_SLEEP
       THEN /\ sleepState' = level
            /\ IF prevSleepState = LOW /\ level = HIGH
               THEN IF mode = MODE_NONE THEN EnterSleep
                    ELSE IF mode = MODE_SLEEP THEN LeaveSleep
                    ELSE /\ trace' = trace \o <<Delay(REST)>>
                         /\ UNCHANGED <<mode, AcStep, AcCount, AcTotal,
                                        ledSleep, ledActive, sessionSamples,
                                        sessionSum>>
               ELSE UNCHANGED <<mode, AcStep, AcCount, AcTotal, ledSleep,
                                ledActive, trace, sessionSamples, sessionSum>>
       ELSE UNCHANGED <<mode, AcStep, AcCount, AcTotal, ledSleep, ledActive,
                        sleepState, trace, sessionSamples, sessionSum>>
    \* prevSleepState is initialised to LOW and never assigned
    /\ UNCHANGED prevSleepState

(* ---------------------------------------------------------------------- *)
(* processSleepData()                                                      *)
(* ---------------------------------------------------------------------- *)

\* AcX = AcX / 100; if (AcX < 0) AcX = AcX * -1;
Normalise(word) ==
    IF TruncDiv(word, 100) < 0 THEN TruncDiv(word, 100) * (-1)
    ELSE TruncDiv(word, 100)

\* AcStep = (AcX + AcY) / 2 on the normalised words
StepOf(AcX, AcY) == TruncDiv(Normalise(AcX) + Normalise(AcY), 2)

\* variant for C15: the call returns without waiting
SleepDataEffectsNoDelay(count, step, total) ==
    <<Assign("AcCount", count), Assign("AcStep", step),
      Assign("AcTotal", total), AnalogWrite(PIN_LED_ACTIVE, step)>>

\* the effects of one call after the words were read, given the values the
\* three globals receive
SleepDataEffects(count, step, total) ==
    <<Assign("AcCount", count), Assign("AcStep", step),
      Assign("AcTotal", total), AnalogWrite(PIN_LED_ACTIVE, step),
      Delay(REST)>>

\* the function body, with AcX and AcY the words read from the sensor
processSleepData(AcX, AcY) ==
    \E count \in AddInt16(AcCount, 1),
       total \in AddInt32(AcTotal, StepOf(AcX, AcY)) :
        /\ AcCount' = count
        /\ AcStep' = StepOf(AcX, AcY)
        /\ AcTotal' = total
        /\ ledActive' = StepOf(AcX, AcY)
        /\ trace' = trace \o <<WireRead("AcX", AcX), WireRead("AcY", AcY)>>
                          \o SleepDataEffects(count, StepOf(AcX, AcY), total)
        /\ sessionSamples' = sessionSamples + 1
        /\ sessionSum' = sessionSum + StepOf(AcX, AcY)

(* ---------------------------------------------------------------------- *)
(* sendData(), resetDevice() and the command switch of sync()              *)
(* ---------------------------------------------------------------------- *)

\* variant for C11: the summary is written after the envelope is closed
SendDataEffectsSummaryLast(count, total) ==
    <<Println("<log message='Sending sleep data'/>"),
      Println("<cmd name='data'>"),
      Println("</cmd>"),
      Println(summariseSleepData(count, total))>>

SendDataEffects(count, total) ==
    <<Println("<log message='Sending sleep data'/>"),
      Println("<cmd name='data'>"),
      Println(summariseSleepData(count, total)),
      Println("</cmd>")>>

\* resetDevice() is an empty function
ResetDeviceEffects == <<>>

\* variant for C12: a default branch that reports the byte
CommandEffectsReportsUnknown(character) ==
    CASE character = "D" ->
           <<Println("<log message='Received: Read data'>")>>
           \o SendDataEffects(AcCount, AcTotal)
      [] character = "R" ->
           <<Println("<log message='Received: Reset device'>")>>
           \o ResetDeviceEffects
      [] OTHER -> <<Println("<log message='Received: Unknown command'>")>>

\* switch (character)
CommandEffects(character) ==
    CASE character = "D" ->
           <<Println("<log message='Received: Read data'>")>>
           \o SendDataEffects(AcCount, AcTotal)
      [] character = "R" ->
           <<Println("<log message='Received: Reset device'>")>>
           \o ResetDeviceEffects
      [] OTHER -> <<>>

\* if (Serial.available() > 0) { character = Serial.read(); switch ... }
handleSerial ==
    IF Len(rx) > 0
    THEN /\ rx' = Tail(rx)
         /\ trace' = trace \o <<SerialRead(Head(rx))>>
                           \o CommandEffects(Head(rx))
    ELSE UNCHANGED <<rx, trace>>

(* ---------------------------------------------------------------------- *)
(* The calls made by idle(), sync() and sleep(), in their order            *)
(* ---------------------------------------------------------------------- *)

\* idle(): processSyncButton()
IdleSync ==
    /\ pc = "idle_sync"
    /\ \E level \in Levels : processSyncButton(level)
    /\ pc' = "idle_sleep"
    /\ ButtonClock
    /\ UNCHANGED <<prevSleepState, AcStep, AcCount, AcTotal, ledSleep,
                   ledActive, pinSleep, sleepState, rx, iter, sessionSamples,
                   sessionSum, sdVars>>

\* idle(): processSleepButton()
IdleSleep ==
    /\ pc = "idle_sleep"
    /\ \E level \in Levels : processSleepButton(level)
    /\ pc' = "loop"
    /\ ButtonClock
    /\ UNCHANGED <<prevSyncState, ledSync, pinSync, syncState, rx, iter,
                   sdVars>>

\* sync(): processSyncButton()
SyncButton ==
    /\ pc = "sync_button"
    /\ \E level \in Levels : processSyncButton(level)
    /\ pc' = "sync_serial"
    /\ ButtonClock
    /\ UNCHANGED <<prevSleepState, AcStep, AcCount, AcTotal, ledSleep,
                   ledActive, pinSleep, sleepState, rx, iter, sessionSamples,
                   sessionSum, sdVars>>

\* sync(): the console command, if a byte is pending
SyncSerial ==
    /\ pc = "sync_serial"
    /\ handleSerial
    /\ pc' = "loop"
    /\ UNCHANGED <<mode, prevSyncState, prevSleepState, AcStep, AcCount,
                   AcTotal, ledSync, ledSleep, ledActive, pinSync, pinSleep,
                   syncState, sleepState, iter, sessionSamples, sessionSum,
                   clockVars, sdVars>>

\* sleep(): processSleepButton()
SleepButton ==
    /\ pc = "sleep_button"
    /\ \E level \in Levels : processSleepButton(level)
    /\ pc' = "sleep_data"
    /\ ButtonClock
    /\ UNCHANGED <<prevSyncState, ledSync, pinSync, syncState, rx, iter,
                   sdVars>>

\* sleep(): processSleepData()
SleepData ==
    /\ pc = "sleep_data"
    /\ \E w \in SensorWords : processSleepData(w[1], w[2])
    /\ pc' = "loop"
    /\ SampleClock
    /\ UNCHANGED <<mode, prevSyncState, prevSleepState, ledSync, ledSleep,
                   pinSync, pinSleep, syncState, sleepState, rx, iter,
                   sdVars>>

\* the base station sends a byte; the UART stores it until it is read
SerialArrive ==
    /\ Len(rx) < MaxRx
    /\ \E b \in ConsoleBytes : rx' = Append(rx, b)
    /\ UNCHANGED <<mode, prevSyncState, prevSleepState, AcStep, AcCount,
                   AcTotal, ledSync, ledSleep, ledActive, pinSync, pinSleep,
                   syncState, sleepState, trace, pc, iter, sessionSamples,
                   sessionSum, clockVars, sdVars>>

Next ==
    \/ Loop
    \/ IdleSync
    \/ IdleSleep
    \/ SyncButton
    \/ SyncSerial
    \/ SleepButton
    \/ SleepData
    \/ SerialArrive

Spec == Init /\ [][Next]_vars

(* ---------------------------------------------------------------------- *)
(* A long Sleep session                                                    *)
(* ---------------------------------------------------------------------- *)

\* The state between two calls of loop() in a Sleep session that has taken
\* n samples with step sum total, the last one with step 0 and the sleep
\* button Low: the state n calls of loop() after the call that entered
\* Sleep from the initial state at time 0.  (For small n TLC reaches it
\* under Spec, see MidSessionReached.)
MidSession(n, total) ==
    /\ mode = MODE_SLEEP
    /\ prevSyncState = LOW
    /\ prevSleepState = LOW
    /\ AcStep = 0
    /\ AcCount = n
    /\ AcTotal = total
    /\ ledSync = LOW
    /\ ledSleep = HIGH
    /\ ledActive = 0
    /\ pinSync = LOW
    /\ pinSleep = LOW
    /\ syncState = LOW
    /\ sleepState = LOW
    /\ rx = <<>>
    /\ trace = <<WireRead("AcX", 0), WireRead("AcY", 0)>>
                 \o SleepDataEffects(n, 0, total)
    /\ pc = "loop"
    /\ sessionSamples = n
    /\ sessionSum = total
    /\ now = (n + 1) * REST
    /\ lastFire = 0
    /\ lastSample = n * REST
    /\ statusSD = FALSE
    /\ fileExists = FALSE
    /\ logFile = <<>>

\* A session two samples short of the largest 16-bit count: sampling every
\* REST = 500 ms, that is about 4.5 hours after Sleep was entered.
InitLong ==
    /\ \E total \in {0, MaxInt16} : MidSession(MaxInt16 - 1, total)
    /\ iter = 0

SpecLong == InitLong /\ [][Next]_vars

(* ---------------------------------------------------------------------- *)
(* The sketch that logs to the SD card (pet-health.ino)                    *)
(* ---------------------------------------------------------------------- *)

\* File dataFile = SD.open(LOG_FILE, how): one attempt to open the log
SdOpen(how, opened) ==
    [op |-> "open", pin |-> 0, val |-> IF opened THEN 1 ELSE 0, text |-> how]

\* dataFile.println(message): val is 1 when the line reached the card
FilePrintln(message, written) ==
    [op |-> "filePrintln", pin |-> 0, val |-> IF written THEN 1 ELSE 0,
     text |-> message]

\* SD.remove(LOG_FILE)
SdRemove(removed) ==
    [op |-> "remove", pin |-> 0, val |-> IF removed THEN 1 ELSE 0,
     text |-> "LOG.TXT"]

\* Serial.write(data) for the bytes of one line of the file
SerialWrite(line) ==
    [op |-> "write", pin |-> 0, val |-> 0, text |-> line]

\* the outcomes of SD.open(LOG_FILE, FILE_WRITE): it creates the file when
\* there is none, and it fails without a card or on a card error
WriteOpenOutcomes == IF statusSD THEN BOOLEAN ELSE {FALSE}

\* the outcomes of SD.open(LOG_FILE, FILE_READ): it needs the file
ReadOpenOutcomes == IF statusSD /\ fileExists THEN BOOLEAN ELSE {FALSE}

\* the outcomes of SD.remove(LOG_FILE): it needs the file
RemoveOutcomes == IF statusSD /\ fileExists THEN BOOLEAN ELSE {FALSE}

\* the state after setup(): SD.begin() found a card or not, and a card may
\* hold the log of an earlier run
InitSD ==
    /\ mode = MODE_NONE
    /\ prevSyncState = LOW
    /\ prevSleepState = LOW
    /\ AcStep = 0
    /\ AcCount = 0
    /\ AcTotal = 0
    /\ ledSync = LOW
    /\ ledSleep = LOW
    /\ ledActive = 0
    /\ pinSync = LOW
    /\ pinSleep = LOW
    /\ syncState = LOW
    /\ sleepState = LOW
    /\ rx = <<>>
    /\ trace = <<>>
    /\ pc = "loop"
    /\ iter = 0
    /\ sessionSamples = 0
    /\ sessionSum = 0
    /\ now = 0
    /\ lastFire = Never
    /\ lastSample = Never
    /\ statusSD \in BOOLEAN
    /\ fileExists \in (IF statusSD THEN BOOLEAN ELSE {FALSE})
    /\ logFile = IF fileExists
                 THEN <<"LOG: Sleep button was pressed, sleep mode disabled">>
                 ELSE <<>>

\* variant for C13: a failed open is not reported
logDataSDEffectsSilent(message, opened, written) ==
    IF opened
    THEN <<SdOpen("FILE_WRITE", TRUE), FilePrintln(message, written),
           Println("<log message='Writing message to SD card'/>")>>
    ELSE <<SdOpen("FILE_WRITE", FALSE)>>

\* logData(message): what the call does, given whether the file opened and
\* whether the line reached the card (the sketch does not look at that)
logDataSDEffects(message, opened, written) ==
    IF opened
    THEN <<SdOpen("FILE_WRITE", TRUE), FilePrintln(message, written),
           Println("<log message='Writing message to SD card'/>")>>
    ELSE <<SdOpen("FILE_WRITE", FALSE),
           Println("<log message='Error opening LOG.TXT...'/>")>>

\* logData(message): what the call leaves on the card
logDataSD(message, opened, written) ==
    /\ fileExists' = (fileExists \/ opened)
    /\ logFile' = IF opened /\ written THEN Append(logFile, message)
                  ELSE logFile
    /\ UNCHANGED statusSD

\* a button fire: the mode, the LED, the log line and the wait
FireSD(newMode, pin, level, message) ==
    \E opened \in WriteOpenOutcomes, written \in BOOLEAN :
        /\ mode' = newMode
        /\ trace' = trace \o <<Assign("mode", newMode),
                               DigitalWrite(pin, level)>>
                          \o logDataSDEffects(message, opened, written)
                          \o <<Delay(REST)>>
        /\ logDataSD(message, opened, written)

\* processSyncButton(), with level the level on the sync button pin
processSyncButtonSD(level) ==
    /\ pinSync' = level
    /\ IF mode = MODE_NONE \/ mode = MODE_SYNC
       THEN /\ syncState' = level
            /\ IF prevSyncState = LOW /\ level = HIGH
               THEN IF mode = MODE_NONE
                    THEN /\ FireSD(MODE_SYNC, PIN_LED_SYNC, HIGH,
                              "LOG: Sync button was pressed, sync mode enabled")
                         /\ ledSync' = HIGH
                    ELSE /\ FireSD(MODE_NONE, PIN_LED_SYNC, LOW,
                              "LOG: Sync button was pressed, sync mode disabled")
                         /\ ledSync' = LOW
               ELSE UNCHANGED <<mode, ledSync, trace, sdVars>>
       ELSE UNCHANGED <<mode, ledSync, syncState, trace, sdVars>>
    /\ UNCHANGED prevSyncState

\* processSleepButton(), with level the level on the sleep button pin
processSleepButtonSD(level) ==
    /\ pinSleep' = level
    /\ IF mode = MODE_NONE \/ mode = MODE_SLEEP
       THEN /\ sleepState' = level
            /\ IF prevSleepState = LOW /\ level = HIGH
               THEN IF mode = MODE_NONE
                    THEN /\ FireSD(MODE_SLEEP, PIN_LED_SLEEP, HIGH,
                              "LOG: Sleep button was pressed, sleep mode enabled")
                         /\ ledSleep' = HIGH
                    ELSE /\ FireSD(MODE_NONE, PIN_LED_SLEEP, LOW,
                              "LOG: Sleep button was pressed, sleep mode disabled")
                         /\ ledSleep' = LOW
               ELSE UNCHANGED <<mode, ledSleep, trace, sdVars>>
       ELSE UNCHANGED <<mode, ledSleep, sleepState, trace, sdVars>>
    /\ UNCHANGED prevSleepState

\* the lines of the file as Serial.write() sends them
FileDump(file) == [i \in 1..Len(file) |-> SerialWrite(file[i])]

\* sendData(), given whether the file opened for reading
sendDataSDEffects(opened) ==
    <<Println("<log message='Sending SD card data'/>"),
      SdOpen("FILE_READ", opened)>>
    \o (IF opened
        THEN <<Println("<cmd name='data'>")>> \o FileDump(logFile)
             \o <<Println("</cmd>")>>
        ELSE <<Println("<log message='Error opening LOG.TXT...'/>")>>)

\* variant for C14: a failed delete is not reported
resetDeviceSDEffectsSilent(removed) ==
    <<Println("<log message='Reset SD card data'/>"), SdRemove(removed)>>

\* resetDevice(), given whether the file was removed
resetDeviceSDEffects(removed) ==
    <<Println("<log message='Reset SD card data'/>"), SdRemove(removed)>>
    \o (IF removed THEN <<>>
        ELSE <<Println("<log message='Error deleting LOG.TXT...'/>")>>)

\* resetDevice(): what the call leaves on the card
resetDeviceSD(removed) ==
    /\ fileExists' = (fileExists /\ ~removed)
    /\ logFile' = IF removed THEN <<>> ELSE logFile
    /\ UNCHANGED statusSD

\* if (Serial.available() > 0) { character = Serial.read(); switch ... }
handleSerialSD ==
    IF Len(rx) > 0
    THEN /\ rx' = Tail(rx)
         /\ CASE Head(rx) = "D" ->
                   \E opened \in ReadOpenOutcomes :
                       /\ trace' = trace
                            \o <<SerialRead("D"),
                                 Println("<log message='Received: Read data'>")>>
                            \o sendDataSDEffects(opened)
                       /\ UNCHANGED sdVars
              [] Head(rx) = "R" ->
                   \E removed \in RemoveOutcomes :
                       /\ trace' = trace
                            \o <<SerialRead("R"),
                                 Println("<log message='Received: Reset device'>")>>
                            \o resetDeviceSDEffects(removed)
                       /\ resetDeviceSD(removed)
              [] OTHER ->
                   /\ trace' = trace \o <<SerialRead(Head(rx))>>
                   /\ UNCHANGED sdVars
    ELSE UNCHANGED <<rx, trace, sdVars>>

\* idle(): processSyncButton()
IdleSyncSD ==
    /\ pc = "idle_sync"
    /\ \E level \in Levels : processSyncButtonSD(level)
    /\ pc' = "idle_sleep"
    /\ ButtonClock
    /\ UNCHANGED <<prevSleepState, AcStep, AcCount, AcTotal, ledSleep,
                   ledActive, pinSleep, sleepState, rx, iter, sessionSamples,
                   sessionSum>>

\* idle(): processSleepButton()
IdleSleepSD ==
    /\ pc = "idle_sleep"
    /\ \E level \in Levels : processSleepButtonSD(level)
    /\ pc' = "loop"
    /\ ButtonClock
    /\ UNCHANGED <<prevSyncState, AcStep, AcCount, AcTotal, ledSync,
                   ledActive, pinSync, syncState, rx, iter, sessionSamples,
                   sessionSum>>

\* sync(): processSyncButton()
SyncButtonSD ==
    /\ pc = "sync_button"
    /\ \E level \in Levels : processSyncButtonSD(level)
    /\ pc' = "sync_serial"
    /\ ButtonClock
    /\ UNCHANGED <<prevSleepState, AcStep, AcCount, AcTotal, ledSleep,
                   ledActive, pinSleep, sleepState, rx, iter, sessionSamples,
                   sessionSum>>

\* sync(): the console command, if a byte is pending
SyncSerialSD ==
    /\ pc = "sync_serial"
    /\ handleSerialSD
    /\ pc' = "loop"
    /\ UNCHANGED <<mode, prevSyncState, prevSleepState, AcStep, AcCount,
                   AcTotal, ledSync, ledSleep, ledActive, pinSync, pinSleep,
                   syncState, sleepState, iter, sessionSamples, sessionSum,
                   clockVars>>

\* sleep(): processSleepButton()
SleepButtonSD ==
    /\ pc = "sleep_button"
    /\ \E level \in Levels : processSleepButtonSD(level)
    /\ pc' = "sleep_data"
    /\ ButtonClock
    /\ UNCHANGED <<prevSyncState, AcStep, AcCount, AcTotal, ledSync,
                   ledActive, pinSync, syncState, rx, iter, sessionSamples,
                   sessionSum>>

\* sleep(): processSleepData(), which is empty in this sketch
SleepDataSD ==
    /\ pc = "sleep_data"
    /\ pc' = "loop"
    /\ UNCHANGED <<mode, prevSyncState, prevSleepState, AcStep, AcCount,
                   AcTotal, ledSync, ledSleep, ledActive, pinSync, pinSleep,
                   syncState, sleepState, rx, trace, iter, sessionSamples,
                   sessionSum, clockVars, sdVars>>

NextSD ==
    \/ Loop
    \/ IdleSyncSD
    \/ IdleSleepSD
    \/ SyncButtonSD
    \/ SyncSerialSD
    \/ SleepButtonSD
    \/ SleepDataSD
    \/ SerialArrive

SpecSD == InitSD /\ [][NextSD]_vars

(* ---------------------------------------------------------------------- *)
(* Properties                                                              *)
(* ---------------------------------------------------------------------- *)

SyncEnabledLine ==
    logData("LOG: Sync button was pressed, sync mode enabled").text

SyncDisabledLine ==
    logData("LOG: Sync button was pressed, sync mode disabled").text

SleepEnabledLine ==
    logData("LOG: Sleep button was pressed, sleep mode enabled").text

SleepDisabledLine ==
    logData("LOG: Sleep button was pressed, sleep mode disabled").text

SummaryLogLine(count, total) == logData(summariseSleepData(count, total)).text

\* C1: whatever button levels and console bytes loop() is fed, the mode is
\* always exactly one of MODE_NONE, MODE_SYNC and MODE_SLEEP: it is never a
\* value that stands for Sync and Sleep together.
C1_ModeIsOneOfThree == mode \in {MODE_NONE, MODE_SYNC, MODE_SLEEP}

\* C1 witness: a Sleep session with samples taken is running, the sleep LED
\* is on and a console byte is pending.
C1_Witness ==
    /\ mode = MODE_SLEEP
    /\ ledSleep = HIGH
    /\ sessionSamples > 0
    /\ rx # <<>>

\* C2: a button has no effect while the other mode is active.  A step taken
\* in Sleep never enters Sync, never changes the sync LED and logs no sync
\* button line; a step taken in Sync never enters Sleep, never changes the
\* sleep LED or the accumulator and logs no sleep button line; and the call
\* of processSleepButton that idle() makes after the sync button has fired
\* changes nothing and logs nothing.
C2_OtherButtonHasNoEffect ==
    [][ /\ mode = MODE_SLEEP =>
             /\ mode' # MODE_SYNC
             /\ ledSync' = ledSync
             /\ Range(Lines(NewEffects))
                  \cap {SyncEnabledLine, SyncDisabledLine} = {}
        /\ mode = MODE_SYNC =>
             /\ mode' # MODE_SLEEP
             /\ ledSleep' = ledSleep
             /\ UNCHANGED <<AcStep, AcCount, AcTotal>>
             /\ Range(Lines(NewEffects))
                  \cap {SleepEnabledLine, SleepDisabledLine,
                        SummaryLogLine(AcCount, AcTotal)} = {}
        /\ (mode = MODE_SYNC /\ pc = "idle_sleep") =>
             /\ UNCHANGED <<mode, ledSync, ledSleep, ledActive, AcStep,
                            AcCount, AcTotal>>
             /\ NewEffects = <<>>
      ]_vars

\* C2 witness: the first call of loop() has completed; the sync button fired
\* in it, and the sleep button, Low until then, was High when
\* processSleepButton ran: the mode is Sync and only the sync line was logged.
C2_Witness ==
    /\ pc = "loop"
    /\ iter = 1
    /\ mode = MODE_SYNC
    /\ pinSleep = HIGH
    /\ Lines(trace) = <<SyncEnabledLine>>

\* C3: a button poll changes the mode only on a Low-to-High transition: the
\* level read at the previous poll of that button was Low and the level read
\* now is High (so a button held High over several polls fires once).
C3_FiresOnlyOnRisingEdge ==
    [][ /\ (pc \in {"idle_sync", "sync_button"} /\ mode' # mode) =>
             (syncState = LOW /\ syncState' = HIGH)
        /\ (pc \in {"idle_sleep", "sleep_button"} /\ mode' # mode) =>
             (sleepState = LOW /\ sleepState' = HIGH)
      ]_vars

\* C4: whenever processSleepData is about to run, the mode is Sleep.
C4_SampleOnlyInSleep == pc = "sleep_data" => mode = MODE_SLEEP

\* C5: leaving Sleep resets the activity output: once the call of loop() in
\* which Sleep was left has completed (all of sleep() has run), and in every
\* state after it until Sleep is entered again, the value last written to
\* the activity LED is 0.  Before the first session it is the 0 that setup()
\* wrote.
C5_ActivityOutputZeroOutsideSleep ==
    (mode # MODE_SLEEP /\ pc # "sleep_data") => ledActive = 0

\* C6: a step that takes the mode from Sleep to Idle logs exactly two lines,
\* the 'sleep mode disabled' notice and then the summary of the accumulator
\* as it is at that moment; a step that enters Sleep, enters Sync or leaves
\* Sync logs exactly one line.
C6_LinesPerTransition ==
    [][ /\ (mode = MODE_SLEEP /\ mode' = MODE_NONE) =>
             Lines(NewEffects) =
               <<SleepDisabledLine,
                 "<log message='SLEEP: duration=" \o Decimal(AcCount)
                   \o ", activity=" \o Decimal(AcTotal) \o "'/>">>
        /\ (mode = MODE_NONE /\ mode' = MODE_SLEEP) =>
             Lines(NewEffects) = <<SleepEnabledLine>>
        /\ (mode = MODE_NONE /\ mode' = MODE_SYNC) =>
             Lines(NewEffects) = <<SyncEnabledLine>>
        /\ (mode = MODE_SYNC /\ mode' = MODE_NONE) =>
             Lines(NewEffects) = <<SyncDisabledLine>>
      ]_vars

\* C6 witness: Sleep has just been left after a session of two samples with
\* step sum 3, and the two lines are the notice and that summary.
C6_Witness ==
    /\ pc = "sleep_data"
    /\ mode = MODE_NONE
    /\ Lines(trace) = <<SleepDisabledLine,
                        "<log message='SLEEP: duration=2, activity=3'/>">>

\* C7: when the summary is produced on leaving Sleep, sampleCount is the
\* number N of samples taken since Sleep was entered and activityTotal is the
\* sum of their steps, and the summary line shows these two numbers.
C7_SummaryCountsSamples ==
    (pc = "sleep_data" /\ mode = MODE_NONE) =>
        /\ AcCount = sessionSamples
        /\ AcTotal = sessionSum
        /\ Lines(trace) =
             <<SleepDisabledLine,
               "<log message='SLEEP: duration=" \o Decimal(sessionSamples)
                 \o ", activity=" \o Decimal(sessionSum) \o "'/>">>

\* C8: a sample taken in a Sleep session leaves sampleCount and activityTotal
\* non-negative and not smaller than they were.
C8_AccumulatorNeverDecreases ==
    [][ (pc = "sleep_data" /\ mode = MODE_SLEEP) =>
           /\ AcCount' >= AcCount
           /\ AcTotal' >= AcTotal
           /\ AcCount' >= 0
           /\ AcTotal' >= 0
      ]_vars

\* the call of loop() that has just completed entered Sleep
EnteredSleep ==
    /\ pc = "loop"
    /\ mode = MODE_SLEEP
    /\ IndexOf(trace, DigitalWrite(PIN_LED_SLEEP, HIGH)) > 0

\* C9: when a call of loop() that entered Sleep completes, sampleCount and
\* activityTotal are 0, both were zeroed before the sleep LED was turned on,
\* and no sample was taken in that call.
C9_EnteringSleepZeroesAccumulator ==
    EnteredSleep =>
        /\ AcCount = 0
        /\ AcTotal = 0
        /\ IndexOf(trace, Assign("AcCount", 0)) > 0
        /\ IndexOf(trace, Assign("AcTotal", 0)) > 0
        /\ IndexOf(trace, Assign("AcCount", 0))
             < IndexOf(trace, DigitalWrite(PIN_LED_SLEEP, HIGH))
        /\ IndexOf(trace, Assign("AcTotal", 0))
             < IndexOf(trace, DigitalWrite(PIN_LED_SLEEP, HIGH))
        /\ \A i \in 1..Len(trace) : trace[i].op # "analogWrite"
        /\ sessionSamples = 0

\* C9 witness: Sleep has been entered for a second time: the activity LED
\* still shows the non-zero step of a sample of the session before.
C9_Witness == EnteredSleep /\ ledActive > 0

\* the console lines the command switch and sendData() write
CommandLines ==
    {"<log message='Received: Read data'>",
     "<log message='Received: Reset device'>",
     "<log message='Sending sleep data'/>", "<cmd name='data'>", "</cmd>"}

\* C10: a console byte is consumed, and a command answered, only in a step
\* taken with mode = Sync: never in Idle or Sleep, and not in the call of
\* loop() in which the sync button has just left Sync.
C10_CommandOnlyInSync ==
    [][ /\ Len(rx') < Len(rx) => mode = MODE_SYNC
        /\ Range(Lines(NewEffects)) \cap CommandLines # {} => mode = MODE_SYNC
      ]_vars

\* A Sleep session of two samples is in the state MidSession describes.
MidSessionReached == MidSession(2, 2) /\ iter = 3


\* the console lines that answer 'D' when the accumulator holds count, total
DataAnswer(count, total) ==
    <<"<log message='Received: Read data'>",
      "<log message='Sending sleep data'/>",
      "<cmd name='data'>",
      "SLEEP: duration=" \o Decimal(count) \o ", activity=" \o Decimal(total),
      "</cmd>">>

\* C11: in Sync mode the step that consumes an inbound 'D' writes the log
\* notes and then the envelope: <cmd name='data'>, the summary of the
\* accumulator as it is, </cmd>, in that order; it changes neither the mode
\* nor the accumulator.
C11_DumpAnswer ==
    [][ (pc = "sync_serial" /\ mode = MODE_SYNC /\ Len(rx) > 0
         /\ Head(rx) = "D" /\ pc' = "loop") =>
           /\ Lines(NewEffects) = DataAnswer(AcCount, AcTotal)
           /\ rx' = Tail(rx)
           /\ UNCHANGED <<mode, AcStep, AcCount, AcTotal>>
      ]_vars

\* C11 witness: a 'D' was answered in Sync mode with an empty session.
C11_Witness ==
    /\ pc = "loop"
    /\ mode = MODE_SYNC
    /\ Lines(trace) = <<"<log message='Received: Read data'>",
                        "<log message='Sending sleep data'/>",
                        "<cmd name='data'>",
                        "SLEEP: duration=0, activity=0",
                        "</cmd>">>

\* C12: in Sync mode the step that consumes a byte other than 'D' and 'R'
\* writes nothing to the console and changes nothing but the byte queue:
\* mode, LEDs, accumulator and persisted log stay as they are.
C12_UnknownByteIgnored ==
    [][ (pc = "sync_serial" /\ mode = MODE_SYNC /\ Len(rx) > 0
         /\ Head(rx) \notin {"D", "R"} /\ pc' = "loop") =>
           /\ Lines(NewEffects) = <<>>
           /\ NewEffects = <<SerialRead(Head(rx))>>
           /\ rx' = Tail(rx)
           /\ UNCHANGED <<mode, ledSync, ledSleep, ledActive, AcStep,
                          AcCount, AcTotal, prevSyncState, prevSleepState,
                          fileExists, logFile>>
      ]_vars

\* C12 witness: a call of loop() in Sync mode has completed in which the
\* byte 'X' was read and nothing else happened.
C12_Witness ==
    /\ pc = "loop"
    /\ mode = MODE_SYNC
    /\ trace = <<SerialRead("X")>>

\* C15: with the clock advanced only by delay(), a button fire comes at
\* least 500 ms after the fire before it, of either button, and a sensor
\* sample at least 500 ms after the sample before it; each fire and each
\* sample is followed by a wait of 500 ms within the same call.
C15_FiresAndSamplesSpaced ==
    [][ /\ (pc \in {"idle_sync", "idle_sleep", "sync_button", "sleep_button"}
            /\ mode' # mode) =>
             /\ (lastFire = Never \/ now - lastFire >= 500)
             /\ now' - now >= 500
        /\ (pc = "sleep_data" /\ pc' = "loop") =>
             /\ (lastSample = Never \/ now - lastSample >= 500)
             /\ now' - now >= 500
      ]_vars

\* C15 witness: a button has fired for the second time, 1000 ms after the
\* first fire and 500 ms after a sample.
C15_Witness ==
    /\ lastFire = 1000
    /\ lastSample = 500
    /\ now = 1500

\* C16: a poll that passes the mode guard stores the level it read as the
\* button's last level: prevSyncState is the level of the last read of the
\* sync button and prevSleepState that of the sleep button.
C16_PollStoresLevelRead ==
    /\ prevSyncState = syncState
    /\ prevSleepState = sleepState

\* the words read in the call of loop() that has just completed
ReadWord(name) ==
    LET i == CHOOSE j \in 1..Len(trace) :
                 trace[j].op = "read" /\ trace[j].text = name
    IN  trace[i].val

\* the call of loop() that has just completed took a sample
SampleTaken ==
    /\ pc = "loop"
    /\ \E j \in 1..Len(trace) : trace[j].op = "read"

\* |n|
Abs(n) == IF n < 0 THEN 0 - n ELSE n

\* C17: for the sensor words X and Y of a sample, the step is
\* (|X / 100| + |Y / 100|) / 2 with every division truncating toward zero
\* (|X / 100| is the number of whole hundreds in |X|), it lies in 0..327,
\* and the value written to the activity output is that step unclamped;
\* (200,100), (300,100), (100,100) give 1, 2, 1 and X = -150 contributes 1.
C17_StepFormula ==
    SampleTaken =>
        /\ AcStep = ((Abs(ReadWord("AcX")) \div 100)
                     + (Abs(ReadWord("AcY")) \div 100)) \div 2
        /\ AcStep \in 0..327
        /\ ledActive = AcStep
        /\ AnalogWrite(PIN_LED_ACTIVE, AcStep) \in Range(trace)
        /\ (ReadWord("AcX") = 200 /\ ReadWord("AcY") = 100) => AcStep = 1
        /\ (ReadWord("AcX") = 300 /\ ReadWord("AcY") = 100) => AcStep = 2
        /\ (ReadWord("AcX") = 100 /\ ReadWord("AcY") = 100) => AcStep = 1
        /\ (ReadWord("AcX") = -150 /\ ReadWord("AcY") = 0) => AcStep = 0
        /\ (ReadWord("AcX") = -250 /\ ReadWord("AcY") = 300) => AcStep = 2

\* C17 witness: the words -32768 and 32767 were sampled and the step 327,
\* beyond the 8-bit range, was written to the activity output.
C17_Witness ==
    /\ SampleTaken
    /\ ReadWord("AcX") = MinInt16
    /\ ReadWord("AcY") = MaxInt16
    /\ ledActive = 327

\* C18: the accumulator changes only inside a Sleep session: a step that
\* starts and ends outside Sleep (in Idle or Sync, or in the rest of the call
\* of loop() that left Sleep) leaves sampleCount and activityTotal as they
\* are, so that 'D' returns the summary logged when the session ended.
C18_AccumulatorFrozenOutsideSleep ==
    [][ (mode # MODE_SLEEP /\ mode' # MODE_SLEEP) =>
            UNCHANGED <<AcCount, AcTotal>> ]_vars

\* C19: between two calls of loop() the LEDs mirror the mode: the sync LED
\* is on exactly in Sync, the sleep LED exactly in Sleep; so both are off in
\* Idle and they are never on together.
C19_LedsMirrorMode ==
    pc = "loop" =>
        /\ (ledSync = HIGH) <=> (mode = MODE_SYNC)
        /\ (ledSleep = HIGH) <=> (mode = MODE_SLEEP)
        /\ ~(ledSync = HIGH /\ ledSleep = HIGH)

\* C19 witness: Sync is active with its LED on and the sleep LED off, after
\* a Sleep session that took samples.
C19_Witness ==
    /\ pc = "loop"
    /\ mode = MODE_SYNC
    /\ ledSync = HIGH
    /\ ledSleep = LOW
    /\ sessionSamples > 0

\* the call of loop() that has just completed was an Idle one in which both
\* buttons were High when they were polled
BothPressedInIdle ==
    /\ pc = "loop"
    /\ iter > 0
    /\ pinSync = HIGH
    /\ pinSleep = HIGH
    /\ Assign("mode", MODE_SYNC) \in Range(trace)

\* C20: when both buttons are pressed in the same Idle call of loop(), the
\* sync button wins: the call ends in Sync, its only console line is 'sync
\* mode enabled', and the sleep button poll did nothing: no accumulator
\* reset, sleep LED off, no second wait.
C20_SyncButtonWins ==
    BothPressedInIdle =>
        /\ mode = MODE_SYNC
        /\ Lines(trace) = <<SyncEnabledLine>>
        /\ trace = SyncEnableEffects \o <<Delay(REST)>>
        /\ ledSync = HIGH
        /\ ledSleep = LOW
        /\ AcCount = sessionSamples

\* C20 witness: both buttons were pressed in an Idle call of loop() after a
\* Sleep session whose samples the accumulator still holds.
C20_Witness == BothPressedInIdle /\ AcCount > 0


\* a poll of the sync button that reads High while the mode lets it read
SyncPollFires ==
    /\ pc \in {"idle_sync", "sync_button"}
    /\ mode \in {MODE_NONE, MODE_SYNC}
    /\ prevSyncState = LOW
    /\ pinSync' = HIGH
    /\ pc' # pc

\* a poll of the sleep button that reads High while the mode lets it read
SleepPollFires ==
    /\ pc \in {"idle_sleep", "sleep_button"}
    /\ mode \in {MODE_NONE, MODE_SLEEP}
    /\ prevSleepState = LOW
    /\ pinSleep' = HIGH
    /\ pc' # pc

\* the attempts to open the log among the effects t
RECURSIVE Opens(_)
Opens(t) ==
    IF t = <<>> THEN 0
    ELSE (IF Head(t).op = "open" THEN 1 ELSE 0) + Opens(Tail(t))

\* C13: on the SD card sketch a fire whose logData cannot open the log
\* still makes its mode transition and its LED change, writes the error line
\* to the console, appends nothing to the log and does not try again; the
\* loop goes on, and every later poll that reads High fires as well, whatever
\* happened to the log before.
C13_OpenFailureIsLocal ==
    [][ /\ SyncPollFires =>
             /\ mode' = (IF mode = MODE_NONE THEN MODE_SYNC ELSE MODE_NONE)
             /\ (ledSync' = HIGH) <=> (mode' = MODE_SYNC)
             /\ pc' = (IF pc = "idle_sync" THEN "idle_sleep" ELSE "sync_serial")
        /\ SleepPollFires =>
             /\ mode' = (IF mode = MODE_NONE THEN MODE_SLEEP ELSE MODE_NONE)
             /\ (ledSleep' = HIGH) <=> (mode' = MODE_SLEEP)
             /\ pc' = (IF pc = "idle_sleep" THEN "loop" ELSE "sleep_data")
        /\ (SyncPollFires \/ SleepPollFires) =>
             /\ Opens(NewEffects) = 1
             /\ SdOpen("FILE_WRITE", FALSE) \in Range(NewEffects) =>
                  /\ Lines(NewEffects) =
                       <<"<log message='Error opening LOG.TXT...'/>">>
                  /\ UNCHANGED <<fileExists, logFile>>
      ]_vars

\* C13 witness: with a card present, two fires in a row could not open the
\* log: the second toggled the mode back to Idle and the log is still empty.
C13_Witness ==
    /\ statusSD
    /\ pc = "loop"
    /\ mode = MODE_NONE
    /\ lastFire = 500
    /\ ~fileExists
    /\ logFile = <<>>
    /\ SdOpen("FILE_WRITE", FALSE) \in Range(trace)

\* a step of sync() in Sync mode that takes the byte b from the console
Consumes(b) ==
    /\ pc = "sync_serial"
    /\ mode = MODE_SYNC
    /\ Len(rx) > 0
    /\ Head(rx) = b
    /\ pc' = "loop"

\* C14: on the SD card sketch an inbound 'R' in Sync mode writes the log
\* notes and then deletes the persisted log; when the delete fails the error
\* line follows and the log is left as it was; either way the mode stays
\* Sync and the accumulator is unchanged.  After a delete that succeeded the
\* log is empty, and a 'D' that finds the log empty sends no log content.
C14_ResetDeletesLog ==
    [][ /\ Consumes("R") =>
             /\ \E removed \in BOOLEAN :
                  /\ NewEffects =
                       <<SerialRead("R"),
                         Println("<log message='Received: Reset device'>"),
                         Println("<log message='Reset SD card data'/>"),
                         SdRemove(removed)>>
                       \o (IF removed THEN <<>>
                           ELSE <<Println("<log message='Error deleting LOG.TXT...'/>")>>)
                  /\ removed => (~fileExists' /\ logFile' = <<>>)
                  /\ ~removed => UNCHANGED <<fileExists, logFile>>
             /\ UNCHANGED <<mode, ledSync, AcStep, AcCount, AcTotal>>
        /\ (Consumes("D") /\ logFile = <<>>) =>
             \A i \in 1..Len(NewEffects) : NewEffects[i].op # "write"
      ]_vars

\* C14 witness: in Sync mode an 'R' has deleted the log that the fire of the
\* sync button had created, and the device is still in Sync.
C14_Witness ==
    /\ pc = "loop"
    /\ mode = MODE_SYNC
    /\ ledSync = HIGH
    /\ SdRemove(TRUE) \in Range(trace)
    /\ ~fileExists
    /\ logFile = <<>>

====
